---- MODULE Spec2Model ----
(***************************************************************************)
(* Canteen management system: the sales ledger kept in                     *)
(* data/canteen_data.xlsx (DataManager, ExcelUploader) and the analytics   *)
(* computed from it (AnalyticsEngine).                                     *)
(*                                                                         *)
(* Conventions of the model                                                *)
(*  - a menu item name is a natural number; the order of the numbers is    *)
(*    the lexicographic order of the names (pandas groupby sorts by name); *)
(*  - an instant is a number of ticks, TicksPerDay ticks to a calendar     *)
(*    day, tick 0 of day 0 being midnight of a Monday;                     *)
(*  - money is kept in tenths of a currency unit in the records (prices    *)
(*    are whole numbers, so quantity * price * 0.3 is a whole number of    *)
(*    tenths), and pandas' floating point is modelled by exact arithmetic: *)
(*    a quotient is a pair num/den, x/0 is inf for x > 0 and NaN for x = 0  *)
(*    as in numpy.                                                         *)
(***************************************************************************)
EXTENDS Integers, Sequences, FiniteSets, TLC

VARIABLES
    fileState,   \* data/canteen_data.xlsx: "missing", "ok", or "unreadable"
                 \* (it exists but pd.read_excel raises on it)
    ledger,      \* the rows of data/canteen_data.xlsx, in file order
    config,      \* config/system_config.json as load_config returns it
    foodItems,   \* FoodItemManager.food_items
    sortTies,    \* how this build's unstable quicksort orders equal keys
    now,         \* the wall clock, datetime.now()
    result,      \* what the last call returned (or that it raised)
    users,       \* SimpleAuth.users, as saved to data/users.json
    current_user,\* SimpleAuth.current_user: an index into users, 0 for None
    authResult   \* what the last SimpleAuth call returned

vars == <<fileState, ledger, config, foodItems, sortTies, now, result,
          users, current_user, authResult>>

storeVars == <<fileState, ledger, config, foodItems, sortTies, now, result>>

----------------------------------------------------------------------------
(* Bounds of the model *)

MaxLedger == 2        \* add/upload only while the file holds fewer rows
MaxHorizon == 2       \* forecast_demand(days), days in 0..MaxHorizon
MaxTicks == 1         \* how many times the clock advances
TicksPerDay == 2      \* clock readings distinguished within one day
SampleSpanDays == 6   \* generate_sample_data covers now-90d..now; scaled
MaxFoodItems == 1     \* add_food_item only while fewer items are listed
MaxTotalSold == 40    \* uploads and sales only while |total_sold| stays within

(* Program constants *)

HistoryDays == 30         \* forecast_demand: timedelta(days=30)
TailDays == 7             \* forecast_demand: daily_totals.tail(7)
HighWastePercent == 15    \* waste_percentage > 15
OverallWastePercent == 15 \* total_waste_percent > 15
LowPerformerCap == 2      \* low_performers.head(2)
QuantileDen == 4          \* quantile(0.25) = 1/4
WorkDays == 5             \* weekday() < 5
WasteCostTenths == 3      \* waste_quantity * price * 0.3, in tenths
DefaultPeriodDays == 30   \* get_sales_trends(period_days=30)

days_order ==
    <<"Monday", "Tuesday", "Wednesday", "Thursday", "Friday", "Saturday", "Sunday">>

----------------------------------------------------------------------------
(* Generic helpers on sequences and sets *)

Range(s) == {s[i] : i \in 1..Len(s)}

Min(S) == CHOOSE x \in S : \A y \in S : x <= y

Max(S) == CHOOSE x \in S : \A y \in S : y <= x

RECURSIVE SumSeq(_)
SumSeq(s) == IF s = <<>> THEN 0 ELSE Head(s) + SumSeq(Tail(s))

RECURSIVE SetToSortedSeq(_)
(* the elements of a finite set of integers, ascending *)
SetToSortedSeq(S) ==
    IF S = {} THEN <<>>
    ELSE LET m == Min(S) IN <<m>> \o SetToSortedSeq(S \ {m})

Column(rows, f) == [i \in 1..Len(rows) |-> rows[i][f]]

----------------------------------------------------------------------------
(* Dates *)

DayOf(ts) == ts \div TicksPerDay

Midnight(day) == day * TicksPerDay

Weekday(ts) == DayOf(ts) % 7

(* the weekday name of the day the call is made *)
Strftime_A_Today(ts) == days_order[Weekday(now) + 1]

Strftime_A(ts) == days_order[Weekday(ts) + 1]

PlusDays(ts, n) == ts + n * TicksPerDay

----------------------------------------------------------------------------
(* Inputs of the model *)

StartDay == 7 * 10                       \* a Monday
StartTick == Midnight(StartDay)
RecentDay == StartDay - 1                \* inside the trailing 30 days
OldDay == StartDay - HistoryDays - 5     \* outside the trailing 30 days

(* load_config's default configuration *)
DefaultConfig ==
    [menu_items |-> <<1, 2, 3, 4, 5, 6, 7, 8>>,
     prices |-> <<80, 120, 100, 50, 150, 80, 60, 40>>]

(* a config/system_config.json listing ten items *)
WideConfig ==
    [menu_items |-> <<1, 2, 3, 4, 5, 6, 7, 8, 9, 10>>,
     prices |-> <<80, 120, 100, 50, 150, 80, 60, 40, 90, 70>>]

Configs == {DefaultConfig, WideConfig}

UnknownItem == 7 * 7                     \* a name no configuration lists

AddDays == {OldDay, RecentDay}
AddItems == {1, 2, UnknownItem}
AddQuantities == {0, 20}
AddWastes == {3}
PeriodChoices == {1, DefaultPeriodDays}  \* get_sales_trends(period_days)

(* outcomes of the seeded random draws of generate_sample_data *)
SampleProfiles == {1, 2}

UploadRow(day, item, q, w) ==
    [date |-> day, menu_item |-> item, quantity_sold |-> q, waste_quantity |-> w]

(* uploaded workbooks: the rows of their sheet *)
UploadFiles ==
    { <<UploadRow(OldDay, 1, 20, 3)>>,
      <<UploadRow(RecentDay, 2, 0, 3)>>,
      <<UploadRow(RecentDay, 2, 0 - 5, 1)>>,
      <<UploadRow(RecentDay, 1, 20, 4), UploadRow(RecentDay, 2, 20, 4)>> }

----------------------------------------------------------------------------
(* The record store: DataManager *)

SalesRecord(date, repr, item, q, price, w) ==
    [date |-> date,
     date_repr |-> repr,                 \* "ts": a datetime cell, "str": 'YYYY-MM-DD' text
     day_of_week |-> Strftime_A(date),
     menu_item |-> item,
     quantity_sold |-> q,
     price |-> price,
     revenue |-> 10 * (q * price),
     waste_quantity |-> w,
     waste_cost |-> w * price * WasteCostTenths,
     is_weekday |-> Weekday(date) < WorkDays]

(* daily_sales and waste_quantity drawn for date number k and item number *)
(* i; waste is int(daily_sales * uniform(0.05, 0.2)).  Profile 1 wastes    *)
(* less than 10% of every item, profile 2 more than 15%.                   *)
SampleDraw(profile, k, i) ==
    IF profile = 1 THEN [q |-> 20 + i + (k % 2), w |-> 2]
    ELSE IF i % 3 = 0 THEN [q |-> 26, w |-> 5]
    ELSE IF i % 3 = 1 THEN [q |-> 13, w |-> 2]
    ELSE [q |-> 19, w |-> 3]

generate_sample_data(profile) ==
    LET n == Len(config.menu_items)
        start == PlusDays(now, 0 - SampleSpanDays)
        Rec(j) ==
            LET k == (j - 1) \div n
                i == ((j - 1) % n) + 1
                d == SampleDraw(profile, k, i)
            IN SalesRecord(PlusDays(start, k), "ts", config.menu_items[i],
                           d.q, config.prices[i], d.w)
    IN [j \in 1..((SampleSpanDays + 1) * n) |-> Rec(j)]

(* pd.to_datetime(df['date']) *)
to_datetime(rows) == [i \in 1..Len(rows) |-> [rows[i] EXCEPT !.date_repr = "ts"]]

(* the sample is drawn only when no file can be read *)
Draws == IF fileState = "ok" THEN {1} ELSE SampleProfiles

(* load_sales_data: the frame it returns and the file it leaves behind *)
load_sales_data(profile) ==
    IF fileState = "ok"
    THEN [data |-> to_datetime(ledger), file |-> ledger]
    ELSE LET df == generate_sample_data(profile) IN [data |-> df, file |-> df]

IndexOf(s, x) == Min({i \in 1..Len(s) : s[i] = x})

WithinBound == fileState # "ok" \/ Len(ledger) < MaxLedger

(* the clock advances; no call has returned at the new instant, and what   *)
(* the last clock-reading call returned at the old one is kept aside       *)
Tick ==
    /\ now < StartTick + MaxTicks
    /\ now' = now + 1
    /\ result' =
           IF result.op = "forecast_demand"
           THEN [op |-> "none", ok |-> result.ok, value |-> result.value,
                 was |-> result.op, args |-> result.days]
           ELSE IF result.op = "get_sales_trends"
           THEN [op |-> "none", ok |-> result.ok, value |-> result.value,
                 was |-> result.op, args |-> result.period_days]
           ELSE [op |-> "none", ok |-> TRUE, value |-> <<>>, was |-> "none", args |-> 0]
    /\ UNCHANGED <<fileState, ledger, config, foodItems, sortTies, users, current_user, authResult>>

add_sales_record(date, menu_item, quantity_sold, waste_quantity) ==
    \E profile \in Draws :
        LET loaded == load_sales_data(profile)
            known == menu_item \in Range(config.menu_items)
            price == config.prices[IndexOf(config.menu_items, menu_item)]
            new_record == SalesRecord(Midnight(date), "ts", menu_item,
                                      quantity_sold, price, waste_quantity)
        IN /\ WithinBound
           /\ fileState' = "ok"
           /\ ledger' = IF known THEN Append(loaded.data, new_record) ELSE loaded.file
           /\ result' = [op |-> "add_sales_record", ok |-> TRUE, value |-> known]
           /\ UNCHANGED <<config, foodItems, sortTies, now, users, current_user, authResult>>

----------------------------------------------------------------------------
(* FoodItemManager and ExcelUploader *)

get_active_items(items) == SelectSeq(items, LAMBDA it : it.is_active)

(* update_item_sales: the first active item of that name gets the sale *)
update_item_sales(items, item_name, quantity_sold) ==
    LET hits == {i \in 1..Len(items) :
                    items[i].name = item_name /\ items[i].is_active}
    IN IF hits = {} THEN items
       ELSE LET i == Min(hits)
                total == items[i].total_sold + quantity_sold
            IN [items EXCEPT ![i] =
                   [@ EXCEPT !.total_sold = total,
                             \* min(total_sold / 100, 1.0), in hundredths
                             !.popularity_score = IF total < 100 THEN total ELSE 100]]

RECURSIVE UpdateAllSales(_, _)
(* the calls of update_item_sales made while the rows are processed *)
UpdateAllSales(items, rows) ==
    IF rows = <<>> THEN items
    ELSE UpdateAllSales(
             update_item_sales(items, Head(rows).menu_item, Head(rows).quantity_sold),
             Tail(rows))

(* a date cell holding text that is not 'YYYY-MM-DD': strptime raises *)
BadDate == 0 - 1

(* the rows processed before the first one that raises *)
ParsedPrefix(rows) ==
    LET bad == {i \in 1..Len(rows) : rows[i].date = BadDate}
    IN IF bad = {} THEN rows ELSE SubSeq(rows, 1, Min(bad) - 1)

(* the sales of a row booked but its record left without revenue *)
ProcessedRecordPriceOnly(row, items) ==
    LET active == get_active_items(items)
        hits == {i \in 1..Len(active) : active[i].name = row.menu_item}
    IN [date |-> Midnight(row.date), date_repr |-> "str",
        day_of_week |-> Strftime_A(Midnight(row.date)),
        menu_item |-> row.menu_item,
        quantity_sold |-> row.quantity_sold,
        waste_quantity |-> row.waste_quantity,
        price |-> IF hits = {} THEN 0 ELSE active[Min(hits)].selling_price,
        revenue |-> 0,
        waste_cost |-> 0,
        is_weekday |-> Weekday(Midnight(row.date)) < WorkDays]

(* upload_sales_data, lines 41-51, then _append_to_main_data, lines 71-77:  *)
(* the record of one sheet row, with price, revenue and waste_cost 0 until *)
(* the first active food item of that name prices it                       *)
ProcessedRecord(row, items) ==
    LET date == Midnight(row.date)
        sales_record ==
            [date |-> date, date_repr |-> "str",
             day_of_week |-> Strftime_A(date),
             menu_item |-> row.menu_item,
             quantity_sold |-> row.quantity_sold,
             waste_quantity |-> row.waste_quantity,
             price |-> 0,
             revenue |-> 0,
             waste_cost |-> 0,
             is_weekday |-> Weekday(date) < WorkDays]
        active == get_active_items(items)
        hits == {i \in 1..Len(active) : active[i].name = row.menu_item}
    IN IF hits = {} THEN sales_record
       ELSE LET item == active[Min(hits)]
            IN [sales_record EXCEPT
                   !.price = item.selling_price,
                   !.revenue = 10 * (row.quantity_sold * item.selling_price),
                   !.waste_cost = row.waste_quantity * item.selling_price * WasteCostTenths]

SameKey(a, b) ==
    /\ a.menu_item = b.menu_item
    /\ a.date_repr = b.date_repr         \* a Timestamp never equals a str
    /\ a.date = b.date

(* drop_duplicates(subset=['date', 'menu_item'], keep='last') *)
drop_duplicates(rows) ==
    LET keep == {i \in 1..Len(rows) :
                    \A j \in (i + 1)..Len(rows) : ~SameKey(rows[i], rows[j])}
        idx == SetToSortedSeq(keep)
    IN [k \in 1..Len(idx) |-> rows[idx[k]]]

(* called while the file is missing or readable *)
_append_to_main_data(new_data) ==
    LET existing == IF fileState = "ok" THEN ledger ELSE <<>>
    IN drop_duplicates(existing \o new_data)

SoldWithinBound(items) ==
    \A i \in 1..Len(items) :
        /\ items[i].total_sold <= MaxTotalSold
        /\ items[i].total_sold >= 0 - MaxTotalSold

(* A row that cannot be parsed, or pd.read_excel(main_file) raising on an  *)
(* unreadable file, ends in the handler of upload_sales_data: it returns   *)
(* (False, message), the file stays as it is and the food items keep the   *)
(* sales booked for the rows processed until then                          *)
upload_sales_data(rows) ==
    LET parsed == ParsedPrefix(rows)
        updated == UpdateAllSales(foodItems, parsed)
        processed_data == [i \in 1..Len(parsed) |-> ProcessedRecord(parsed[i], updated)]
        success == Len(parsed) = Len(rows) /\ fileState # "unreadable"
    IN /\ fileState # "ok" \/ Len(ledger) + Len(rows) <= MaxLedger
       /\ SoldWithinBound(updated)
       /\ foodItems' = updated
       /\ ledger' = IF success THEN _append_to_main_data(processed_data) ELSE ledger
       /\ fileState' = IF success THEN "ok" ELSE fileState
       /\ result' = [op |-> "upload_sales_data", ok |-> TRUE,
                     value |-> [success |-> success, processed |-> Len(parsed)]]
       /\ UNCHANGED <<config, sortTies, now, users, current_user, authResult>>

----------------------------------------------------------------------------
(* Floating point as pandas/numpy use it: a quotient is exact, x/0 is inf  *)
(* (x > 0), -inf (x < 0) or NaN (x = 0); every comparison with NaN is false *)

NaN == [kind |-> "nan", num |-> 0, den |-> 1]

Divide(a, b) ==
    IF b = 0
    THEN IF a = 0 THEN NaN
         ELSE [kind |-> IF a > 0 THEN "inf" ELSE "-inf", num |-> 0, den |-> 1]
    ELSE IF b > 0 THEN [kind |-> "num", num |-> a, den |-> b]
    ELSE [kind |-> "num", num |-> 0 - a, den |-> 0 - b]

(* the ratio left as a fraction of one *)
AsFraction(r) == r

Times100(r) == [r EXCEPT !.num = 100 * r.num]

(* r > c, c an integer *)
GreaterThan(r, c) ==
    \/ r.kind = "inf"
    \/ r.kind = "num" /\ r.num > c * r.den

(* x <= r, x an integer *)
IntAtMost(x, r) ==
    \/ r.kind = "inf"
    \/ r.kind = "num" /\ x * r.den <= r.num

(* x < r, x an integer *)
IntLessThan(x, r) ==
    \/ r.kind = "inf"
    \/ r.kind = "num" /\ x * r.den < r.num

(* the integer nearest to n/d (d > 0), halves to the even one: numpy round *)
RoundHalfEven(n, d) ==
    LET q == n \div d
        r == n % d
    IN IF 2 * r < d THEN q
       ELSE IF 2 * r > d THEN q + 1
       ELSE IF q % 2 = 0 THEN q ELSE q + 1

(* .round(2) of n/d, in hundredths *)
Round2(n, d) == RoundHalfEven(100 * n, d)

(* int(x) of a finite quotient: truncation toward zero *)
IntOf(r) ==
    IF r.num >= 0 THEN r.num \div r.den ELSE 0 - ((0 - r.num) \div r.den)

----------------------------------------------------------------------------
(* pandas building blocks *)

(* groupby(col): the group keys, ascending *)
GroupKeys(data, col) == SetToSortedSeq(Range(Column(data, col)))

(* the first row of a group only *)
GroupHead(data, col, key) ==
    LET g == SelectSeq(data, LAMBDA r : r[col] = key) IN SubSeq(g, 1, 1)

Group(data, col, key) == SelectSeq(data, LAMBDA r : r[col] = key)

(* agg 'mean' where 'sum' is meant (whole part) *)
Mean(data, col) == SumSeq(Column(data, col)) \div Len(data)

Sum(data, col) == SumSeq(Column(data, col))

RemoveAt(s, i) == [k \in 1..(Len(s) - 1) |-> IF k < i THEN s[k] ELSE s[k + 1]]

RECURSIVE SortAscendingRows(_, _)
(* sort_values(col) with ascending left at its default *)
SortAscendingRows(rows, col) ==
    IF rows = <<>> THEN <<>>
    ELSE LET low == Min(Range(Column(rows, col)))
             i == Min({k \in 1..Len(rows) : rows[k][col] = low})
         IN <<rows[i]>> \o SortAscendingRows(RemoveAt(rows, i), col)

RECURSIVE SortDescendingUnseeded(_, _)
(* a sort whose order of equal keys changes from one call to the next *)
SortDescendingUnseeded(rows, col) ==
    IF rows = <<>> THEN <<>>
    ELSE LET top == Max(Range(Column(rows, col)))
             at == {i \in 1..Len(rows) : rows[i][col] = top}
             i == IF result.op = "none" \/ result.op = "upload_sales_data"
                  THEN Min(at) ELSE Max(at)
         IN <<rows[i]>> \o SortDescendingUnseeded(RemoveAt(rows, i), col)

RECURSIVE SortDescending(_, _)
(* sort_values(col, ascending=False) with the default kind='quicksort',   *)
(* which is not stable: rows with equal keys come out in the order this    *)
(* build's sort leaves them, the input order or its reverse                *)
SortDescending(rows, col) ==
    IF rows = <<>> THEN <<>>
    ELSE LET top == Max(Range(Column(rows, col)))
             at == {i \in 1..Len(rows) : rows[i][col] = top}
             i == IF sortTies = "input" THEN Min(at) ELSE Max(at)
         IN <<rows[i]>> \o SortDescending(RemoveAt(rows, i), col)

RECURSIVE SortAscending(_)
(* the values of a sequence of integers, ascending *)
SortAscending(s) ==
    IF s = <<>> THEN <<>>
    ELSE LET m == Min(Range(s))
         IN <<m>> \o SortAscending(RemoveAt(s, IndexOf(s, m)))

(* Series.quantile(0.25): linear interpolation between order statistics,   *)
(* at position (n - 1) / 4 of the sorted values; NaN for an empty series    *)
Quantile25(values) ==
    LET n == Len(values)
        v == SortAscending(values)
        lo == (n - 1) \div QuantileDen
        r == (n - 1) % QuantileDen
    IN IF n = 0 THEN NaN
       ELSE [kind |-> "num",
             num |-> IF r = 0 THEN QuantileDen * v[lo + 1]
                     ELSE QuantileDen * v[lo + 1] + r * (v[lo + 2] - v[lo + 1]),
             den |-> QuantileDen]

----------------------------------------------------------------------------
(* AnalyticsEngine, on the frame load_sales_data returned *)

get_sales_trends(data, period_days) ==
    LET cutoff == PlusDays(now, 0 - period_days)
        recent_data == SelectSeq(data, LAMBDA r : r.date >= cutoff)
        dates == GroupKeys(recent_data, "date")
        Row(date) ==
            LET g == Group(recent_data, "date", date)
            IN [date |-> date,
                quantity_sold |-> Sum(g, "quantity_sold"),
                revenue |-> Sum(g, "revenue"),
                waste_quantity |-> Sum(g, "waste_quantity")]
    IN [i \in 1..Len(dates) |-> Row(dates[i])]

get_menu_performance(data) ==
    LET keys == GroupKeys(data, "menu_item")
        Row(item) ==
            LET g == Group(data, "menu_item", item)
                total_sold == Round2(Sum(g, "quantity_sold"), 1)
                total_revenue == Round2(Sum(g, "revenue"), 10)
                total_waste == Round2(Sum(g, "waste_quantity"), 1)
                total_waste_cost == Round2(Sum(g, "waste_cost"), 10)
            IN [menu_item |-> item,
                total_sold |-> total_sold,
                avg_daily_sold |-> Round2(Sum(g, "quantity_sold"), Len(g)),
                total_revenue |-> total_revenue,
                total_waste |-> total_waste,
                total_waste_cost |-> total_waste_cost,
                waste_percentage |-> Times100(Divide(total_waste, total_sold)),
                profitability |-> total_revenue - total_waste_cost]
        performance == [i \in 1..Len(keys) |-> Row(keys[i])]
    IN SortDescending(performance, "profitability")

get_waste_analysis(data) ==
    LET keys == GroupKeys(data, "menu_item")
        Row(item) ==
            LET g == Group(data, "menu_item", item)
            IN [menu_item |-> item,
                waste_quantity |-> Sum(g, "waste_quantity"),
                waste_cost |-> Sum(g, "waste_cost"),
                quantity_sold |-> Sum(g, "quantity_sold"),
                waste_percentage |->
                    Times100(Divide(Sum(g, "waste_quantity"), Sum(g, "quantity_sold")))]
        waste_summary == [i \in 1..Len(keys) |-> Row(keys[i])]
    IN SortDescending(waste_summary, "waste_cost")

DayCode(name) == IndexOf(days_order, name)

get_daily_patterns(data) ==
    LET present == Range(Column(data, "day_of_week"))
        codes == SetToSortedSeq({DayCode(d) : d \in present})
        Row(day) ==
            LET g == Group(data, "day_of_week", day)
            IN [day_of_week |-> day,
                quantity_sold |-> Divide(Sum(g, "quantity_sold"), Len(g)),
                revenue |-> Divide(Sum(g, "revenue"), Len(g)),
                waste_quantity |-> Divide(Sum(g, "waste_quantity"), Len(g))]
    IN [i \in 1..Len(codes) |-> Row(days_order[codes[i]])]

(* forecast_demand: [raised, rows]; int(NaN) raises ValueError *)
forecast_demand(data, days) ==
    LET cutoff == PlusDays(now, 0 - HistoryDays)
        recent_sales == SelectSeq(data, LAMBDA r : r.date >= cutoff)
        dates == GroupKeys(recent_sales, "date")
        daily_totals ==
            [i \in 1..Len(dates) |-> Sum(Group(recent_sales, "date", dates[i]), "quantity_sold")]
        first == IF Len(dates) > TailDays THEN Len(dates) - TailDays + 1 ELSE 1
        tail == SubSeq(daily_totals, first, Len(dates))
        forecast_value == Divide(SumSeq(tail), Len(tail))
        Entry(i) ==
            LET forecast_date == PlusDays(now, i)
            IN [date |-> forecast_date,
                forecasted_demand |-> IntOf(forecast_value),
                day_of_week |-> Strftime_A(forecast_date)]
    IN IF days > 0 /\ forecast_value.kind # "num"
       THEN [raised |-> TRUE, rows |-> <<>>]
       ELSE [raised |-> FALSE, rows |-> [i \in 1..days |-> Entry(i)]]

(* waste_analysis[waste_analysis['waste_percentage'] > 15] *)
high_waste(waste_analysis) ==
    SelectSeq(waste_analysis, LAMBDA r : GreaterThan(r.waste_percentage, HighWastePercent))

(* menu_perf[menu_perf['profitability'] < menu_perf['profitability'].quantile(0.25)] *)
low_performers(menu_perf) ==
    LET threshold == Quantile25(Column(menu_perf, "profitability"))
    IN SelectSeq(menu_perf, LAMBDA r : IntLessThan(r.profitability, threshold))

(* DataFrame.tail(n) *)
tail(rows, n) == SubSeq(rows, IF Len(rows) < n THEN 1 ELSE Len(rows) - n + 1, Len(rows))

(* DataFrame.head(n) *)
head(rows, n) == SubSeq(rows, 1, IF Len(rows) < n THEN Len(rows) ELSE n)

(* (data['waste_cost'].sum() / data['revenue'].sum()) * 100 *)
total_waste_percent(data) ==
    Times100(Divide(Sum(data, "waste_cost"), Sum(data, "revenue")))

generate_recommendations(data) ==
    LET menu_perf == get_menu_performance(data)
        waste_analysis == get_waste_analysis(data)
        high == high_waste(waste_analysis)
        warnings ==
            [i \in 1..Len(high) |->
                [type |-> "warning",
                 menu_item |-> high[i].menu_item,
                 percent |-> high[i].waste_percentage]]
        low == head(low_performers(menu_perf), LowPerformerCap)
        infos ==
            [i \in 1..Len(low) |->
                [type |-> "info", menu_item |-> low[i].menu_item, percent |-> NaN]]
        general ==
            IF GreaterThan(total_waste_percent(data), OverallWastePercent)
            THEN << [type |-> "critical", menu_item |-> 0,
                     percent |-> total_waste_percent(data)] >>
            ELSE <<>>
    IN warnings \o infos \o general

----------------------------------------------------------------------------
(* The operations: each loads the ledger first (load_sales_data writes the *)
(* generated sample to the file when there is none)                        *)

(* again: the call before this one was the same call, on the same file *)
Returned(op, value) ==
    [op |-> op, ok |-> TRUE, value |-> value,
     again |-> result.op = op /\ fileState = "ok"]

(* the file after load_sales_data; nothing else of the store changes *)
Loaded(loaded) ==
    /\ fileState' = "ok"
    /\ ledger' = loaded.file
    /\ UNCHANGED <<config, foodItems, sortTies, now, users, current_user, authResult>>

GetSalesTrends ==
    \E profile \in Draws, period_days \in PeriodChoices :
        LET loaded == load_sales_data(profile)
        IN /\ Loaded(loaded)
           /\ result' = [op |-> "get_sales_trends", ok |-> TRUE,
                         value |-> get_sales_trends(loaded.data, period_days),
                         period_days |-> period_days,
                         again |-> /\ result.op = "get_sales_trends"
                                   /\ result.period_days = period_days
                                   /\ fileState = "ok"]

GetMenuPerformance ==
    \E profile \in Draws :
        LET loaded == load_sales_data(profile)
        IN /\ Loaded(loaded)
           /\ result' = Returned("get_menu_performance", get_menu_performance(loaded.data))

GetWasteAnalysis ==
    \E profile \in Draws :
        LET loaded == load_sales_data(profile)
        IN /\ Loaded(loaded)
           /\ result' = Returned("get_waste_analysis", get_waste_analysis(loaded.data))

GetDailyPatterns ==
    \E profile \in Draws :
        LET loaded == load_sales_data(profile)
        IN /\ Loaded(loaded)
           /\ result' = Returned("get_daily_patterns", get_daily_patterns(loaded.data))

GenerateRecommendations ==
    \E profile \in Draws :
        LET loaded == load_sales_data(profile)
        IN /\ Loaded(loaded)
           /\ result' = Returned("generate_recommendations",
                                 generate_recommendations(loaded.data))

ForecastDemand ==
    \E profile \in Draws, days \in 0..MaxHorizon :
        LET loaded == load_sales_data(profile)
            forecast == forecast_demand(loaded.data, days)
        IN /\ Loaded(loaded)
           /\ result' = [op |-> "forecast_demand", ok |-> ~forecast.raised,
                         value |-> forecast.rows, days |-> days,
                         again |-> /\ result.op = "forecast_demand"
                                   /\ result.days = days
                                   /\ fileState = "ok"]

AddSalesRecord ==
    \E date \in AddDays, menu_item \in AddItems,
       quantity_sold \in AddQuantities, waste_quantity \in AddWastes :
        add_sales_record(date, menu_item, quantity_sold, waste_quantity)

UploadSalesData == \E rows \in UploadFiles : upload_sales_data(rows)

----------------------------------------------------------------------------
(* SimpleAuth *)

MaxUsers == 3             \* add_user succeeds only while fewer users exist

NoLogin == 0 - 1          \* last_login: None

(* hashlib.sha256(password.encode()).hexdigest(): no two of the passwords  *)
(* used here have the same digest                                          *)
hash_password(password) == <<"sha256", password>>

(* create_default_admin *)
DefaultAdmin ==
    [user_id |-> 1,
     username |-> "admin",
     password |-> hash_password("admin"),
     role |-> "admin",
     is_active |-> TRUE,
     last_login |-> NoLogin]

AuthNames == {"", "admin", "ann", "bob"}
AuthPasswords == {"", "admin", "pw"}
AuthRoles == {"", "admin", "user"}
AuthFullNames == {"", "A. User"}

(* any user is logged in *)
AnyoneLoggedIn == current_user # 0

(* add_user, line 113: the current user exists and has role 'admin' *)
CurrentIsAdmin == current_user # 0 /\ users[current_user].role = "admin"

login(username, password) ==
    LET hits == {i \in 1..Len(users) :
                    users[i].username = username /\ users[i].is_active}
        i == Min(hits)
        matches == /\ username # "" /\ password # ""
                   /\ hits # {}
                   /\ users[i].password = hash_password(password)
    IN /\ users' = IF matches THEN [users EXCEPT ![i].last_login = now] ELSE users
       /\ current_user' = IF matches THEN i ELSE current_user
       /\ authResult' = [op |-> "login", success |-> matches]
       /\ UNCHANGED storeVars

logout ==
    /\ current_user' = 0
    /\ authResult' = [op |-> "logout", success |-> TRUE]
    /\ UNCHANGED <<users, storeVars>>

add_user(username, password, role, full_name) ==
    LET complete == username # "" /\ password # "" /\ role # "" /\ full_name # ""
        exists == \E i \in 1..Len(users) : users[i].username = username
        added == CurrentIsAdmin /\ complete /\ ~exists
        new_user ==
            [user_id |-> Len(users) + 1,
             username |-> username,
             password |-> hash_password(password),
             role |-> role,
             is_active |-> TRUE,
             last_login |-> NoLogin]
    IN /\ added => Len(users) < MaxUsers
       /\ users' = IF added THEN Append(users, new_user) ELSE users
       /\ authResult' = [op |-> "add_user", success |-> added]
       /\ UNCHANGED <<current_user, storeVars>>

Login == \E username \in AuthNames, password \in AuthPasswords : login(username, password)

AddUser ==
    \E username \in AuthNames, password \in AuthPasswords,
       role \in AuthRoles, full_name \in AuthFullNames :
        add_user(username, password, role, full_name)

(* SimpleAuth.__init__ with no data/users.json *)
AuthStart ==
    /\ users = <<DefaultAdmin>>
    /\ current_user = 0
    /\ authResult = [op |-> "none", success |-> TRUE]

----------------------------------------------------------------------------

Init ==
    /\ fileState \in {"missing", "unreadable"}
    /\ ledger = <<>>
    /\ config \in Configs
    /\ foodItems = <<>>
    /\ sortTies \in {"input", "reverse"}
    /\ now = StartTick
    /\ result = [op |-> "none", ok |-> TRUE, value |-> <<>>, was |-> "none", args |-> 0]
    /\ AuthStart

Next ==
    \/ Tick
    \/ AddSalesRecord
    \/ UploadSalesData
    \/ GetSalesTrends
    \/ GetMenuPerformance
    \/ GetWasteAnalysis
    \/ GetDailyPatterns
    \/ ForecastDemand
    \/ GenerateRecommendations

Spec == Init /\ [][Next]_vars

----------------------------------------------------------------------------
(* The record-adding side on its own: the three ways a record enters the   *)
(* ledger (DataManager, the application, the uploader), with food items    *)
(* and a configuration whose prices change                                 *)

FoodNames == {2}
FoodPrices == {50}
AppItems == {2, UnknownItem}
AppSampleStartDay == StartDay - 6 * 7    \* '2024-01-01', a Monday

(* config/system_config.json after item 1 was repriced *)
RepricedConfig == [DefaultConfig EXCEPT !.prices[1] = 90]

StoreUploadFiles ==
    { <<UploadRow(RecentDay, 2, 20, 4)>>,
      <<UploadRow(RecentDay, 2, 0 - 5, 1)>>,
      <<UploadRow(RecentDay, 2, 20, 4), UploadRow(BadDate, 1, 20, 4)>> }

(* FoodItemManager.add_food_item *)
add_food_item(name, selling_price) ==
    LET new_item ==
            [item_id |-> Len(foodItems) + 1,
             name |-> name,
             selling_price |-> selling_price,
             is_active |-> TRUE,
             total_sold |-> 0,
             popularity_score |-> 0]
    IN /\ Len(foodItems) < MaxFoodItems
       /\ foodItems' = Append(foodItems, new_item)
       /\ result' = [op |-> "add_food_item", ok |-> TRUE, value |-> new_item]
       /\ UNCHANGED <<fileState, ledger, config, sortTies, now, users, current_user, authResult>>

(* CanteenManagementSystem.create_sample_data: the dates are fixed *)
create_sample_data(profile) ==
    LET n == Len(config.menu_items)
        start == Midnight(AppSampleStartDay)
        Rec(j) ==
            LET k == (j - 1) \div n
                i == ((j - 1) % n) + 1
                d == SampleDraw(profile, k, i)
            IN SalesRecord(PlusDays(start, k), "ts", config.menu_items[i],
                           d.q, config.prices[i], d.w)
    IN [j \in 1..((SampleSpanDays + 1) * n) |-> Rec(j)]

(* CanteenManagementSystem.load_data: the file as it is read, dates left   *)
(* as stored                                                               *)
load_data(profile) == IF fileState = "ok" THEN ledger ELSE create_sample_data(profile)

(* CanteenManagementSystem.add_new_sales_record *)
add_new_sales_record(date, menu_item, quantity_sold, waste_quantity) ==
    \E profile \in Draws :
        LET current_data == load_data(profile)
            active == get_active_items(foodItems)
            hits == {i \in 1..Len(active) : active[i].name = menu_item}
            price ==
                IF hits # {} THEN active[Min(hits)].selling_price
                ELSE IF menu_item \in Range(config.menu_items)
                THEN config.prices[IndexOf(config.menu_items, menu_item)]
                ELSE 0
            new_record == SalesRecord(Midnight(date), "ts", menu_item,
                                      quantity_sold, price, waste_quantity)
            updated == update_item_sales(foodItems, menu_item, quantity_sold)
        IN /\ WithinBound
           /\ SoldWithinBound(updated)
           /\ fileState' = "ok"
           /\ ledger' = Append(current_data, new_record)
           /\ foodItems' = updated
           /\ result' = [op |-> "add_new_sales_record", ok |-> TRUE, value |-> TRUE]
           /\ UNCHANGED <<config, sortTies, now, users, current_user, authResult>>

AddFoodItem ==
    \E name \in FoodNames, selling_price \in FoodPrices : add_food_item(name, selling_price)

AddNewSalesRecord ==
    \E date \in AddDays, menu_item \in AppItems,
       quantity_sold \in AddQuantities, waste_quantity \in AddWastes :
        add_new_sales_record(date, menu_item, quantity_sold, waste_quantity)

UploadStoreFile == \E rows \in StoreUploadFiles : upload_sales_data(rows)

(* config/system_config.json is edited: the price of an item changes *)
EditConfig ==
    /\ config = DefaultConfig
    /\ config' = RepricedConfig
    /\ result' = [op |-> "none", ok |-> TRUE, value |-> <<>>, was |-> "none", args |-> 0]
    /\ UNCHANGED <<fileState, ledger, foodItems, sortTies, now, users, current_user, authResult>>

StoreInit ==
    /\ fileState \in {"missing", "unreadable"}
    /\ ledger = <<>>
    /\ config = DefaultConfig
    /\ foodItems = <<>>
    /\ sortTies = "input"
    /\ now = StartTick
    /\ result = [op |-> "none", ok |-> TRUE, value |-> <<>>, was |-> "none", args |-> 0]
    /\ AuthStart

StoreNext ==
    \/ AddSalesRecord
    \/ AddNewSalesRecord
    \/ UploadStoreFile
    \/ AddFoodItem
    \/ EditConfig

StoreSpec == StoreInit /\ [][StoreNext]_vars

----------------------------------------------------------------------------
(* SimpleAuth on its own *)

AuthInit ==
    /\ fileState = "missing"
    /\ ledger = <<>>
    /\ config = DefaultConfig
    /\ foodItems = <<>>
    /\ sortTies = "input"
    /\ now = StartTick
    /\ result = [op |-> "none", ok |-> TRUE, value |-> <<>>, was |-> "none", args |-> 0]
    /\ AuthStart

AuthNext ==
    \/ Login
    \/ logout
    \/ AddUser

AuthSpec == AuthInit /\ [][AuthNext]_vars

----------------------------------------------------------------------------
(* What the claims speak of, read directly off the stored ledger.  The     *)
(* result of a call is always that of the ledger of the same state: every  *)
(* action that changes the ledger or the clock replaces the result.        *)

RECURSIVE SumOver(_, _)
SumOver(I, col) ==
    IF I = {} THEN 0
    ELSE LET i == CHOOSE x \in I : TRUE
         IN ledger[i][col] + SumOver(I \ {i}, col)

LedgerItems == {ledger[i].menu_item : i \in DOMAIN ledger}

RowsOf(item) == {i \in DOMAIN ledger : ledger[i].menu_item = item}

Sold(item) == SumOver(RowsOf(item), "quantity_sold")

Wasted(item) == SumOver(RowsOf(item), "waste_quantity")

RevenueOf(item) == SumOver(RowsOf(item), "revenue")          \* tenths

WasteCostOf(item) == SumOver(RowsOf(item), "waste_cost")     \* tenths

ProfitOf(item) == RevenueOf(item) - WasteCostOf(item)        \* tenths

IsRecs == result.op = "generate_recommendations"

Recs == result.value

OfType(t) == {i \in DOMAIN Recs : Recs[i].type = t}

WarningsFor(item) == {i \in OfType("warning") : Recs[i].menu_item = item}

(* ---------------------------------------------------------------------- *)
(* C1: generateRecommendations emits exactly one warning for every menu    *)
(* item whose waste percentage (summed waste / summed sold * 100) is       *)
(* defined and strictly greater than 15, and no warning for any other item *)
C1_WarningPerHighWasteItem ==
    IsRecs =>
        /\ \A i \in OfType("warning") : Recs[i].menu_item \in LedgerItems
        /\ \A item \in LedgerItems :
               Cardinality(WarningsFor(item)) =
                   IF Sold(item) # 0 /\ 100 * Wasted(item) > 15 * Sold(item)
                   THEN 1 ELSE 0

(* C2: an item whose summed quantity_sold is 0 never appears in the        *)
(* warnings of generateRecommendations, whatever its summed waste is       *)
C2_NoWarningForUnsoldItem ==
    IsRecs => \A item \in LedgerItems : Sold(item) = 0 => WarningsFor(item) = {}

(* C3: in the rows of menuPerformance and wasteAnalysis an item whose      *)
(* summed quantity_sold is 0 carries the undefined marker (NaN): not 0,    *)
(* not infinity, and the call does not raise                               *)
C3_UnsoldItemHasUndefinedPercentage ==
    result.op \in {"get_menu_performance", "get_waste_analysis"} =>
        /\ result.ok
        /\ \A i \in DOMAIN result.value :
               Sold(result.value[i].menu_item) = 0 =>
                   result.value[i].waste_percentage.kind = "nan"

(* ---------------------------------------------------------------------- *)
(* The 25th percentile of the items' profitability: the k-th smallest     *)
(* value is the one with fewer than k items strictly below it and at least *)
(* k items at or below it; the percentile lies at position (n - 1) / 4.    *)

ProfitByItem == [i \in LedgerItems |-> ProfitOf(i)]

OrderStatistic(P, k) ==
    CHOOSE v \in {P[i] : i \in DOMAIN P} :
        /\ Cardinality({i \in DOMAIN P : P[i] < v}) < k
        /\ Cardinality({i \in DOMAIN P : P[i] <= v}) >= k

(* four times the percentile *)
FourPercentile25(P) ==
    LET n == Cardinality(DOMAIN P)
        lo == (n - 1) \div 4
        r == (n - 1) % 4
    IN IF r = 0 THEN 4 * OrderStatistic(P, lo + 1)
       ELSE (4 - r) * OrderStatistic(P, lo + 1) + r * OrderStatistic(P, lo + 2)

(* the items strictly below the percentile *)
Qualifying(P) ==
    IF DOMAIN P = {} THEN {}
    ELSE LET q == FourPercentile25(P) IN {i \in DOMAIN P : 4 * P[i] < q}

InfoItems == {Recs[i].menu_item : i \in OfType("info")}

(* C4 as claimed: the infos name exactly the items strictly below the      *)
(* 25th percentile when at most 2 qualify, and exactly the two             *)
(* lowest-profitability qualifying items when more than 2 qualify          *)
C4_InfosAreTwoLowestQualifying ==
    IsRecs =>
        LET P == ProfitByItem
            Q == Qualifying(P)
        IN /\ Cardinality(OfType("info")) = Cardinality(InfoItems)
           /\ IF Cardinality(Q) <= 2 THEN InfoItems = Q
              ELSE /\ InfoItems \subseteq Q
                   /\ Cardinality(InfoItems) = 2
                   /\ \A a \in InfoItems, b \in Q \ InfoItems : P[a] <= P[b]

(* C4 as amended: when more than 2 items qualify the infos name the first  *)
(* two qualifying rows of the profitability-descending table, that is the  *)
(* two highest-profitability qualifying items, the higher one first        *)
C4_InfosAreFirstTwoQualifying ==
    IsRecs =>
        LET P == ProfitByItem
            Q == Qualifying(P)
        IN /\ Cardinality(OfType("info")) = Cardinality(InfoItems)
           /\ InfoItems \subseteq Q
           /\ \A i, j \in OfType("info") :
                  i < j => P[Recs[i].menu_item] >= P[Recs[j].menu_item]
           /\ IF Cardinality(Q) <= 2 THEN InfoItems = Q
              ELSE /\ Cardinality(InfoItems) = 2
                   /\ \A a \in InfoItems, b \in Q \ InfoItems : P[a] >= P[b]

(* a call on a ledger where three items of distinct profitability qualify *)
C4_Witness ==
    /\ IsRecs
    /\ LET P == ProfitByItem
           Q == Qualifying(P)
       IN /\ Cardinality(Q) > 2
          /\ Cardinality({P[i] : i \in Q}) > 2
          /\ Cardinality(InfoItems) = 2

(* a call where one or two items qualify *)
C4_WitnessFew ==
    /\ IsRecs
    /\ InfoItems # {}
    /\ Cardinality(Qualifying(ProfitByItem)) <= 2

(* ---------------------------------------------------------------------- *)
TotalRevenue == SumOver(DOMAIN ledger, "revenue")

TotalWasteCost == SumOver(DOMAIN ledger, "waste_cost")

(* C5: exactly one critical recommendation iff the total revenue of the    *)
(* ledger is nonzero and total waste cost / total revenue * 100 > 15; with *)
(* total revenue 0 there is none, and the call does not raise              *)
C5_CriticalIffOverallWasteAbove15 ==
    IsRecs =>
        /\ result.ok
        /\ Cardinality(OfType("critical")) =
               IF TotalRevenue # 0 /\ 100 * TotalWasteCost > 15 * TotalRevenue
               THEN 1 ELSE 0

(* ---------------------------------------------------------------------- *)
Severity(t) == IF t = "warning" THEN 1 ELSE IF t = "info" THEN 2 ELSE 3

(* C6: in every list of recommendations the warnings precede the infos,    *)
(* which precede the critical entry; the warnings are in descending order  *)
(* of their items' total waste cost; at most 2 infos, at most 1 critical;  *)
(* every severity is one of info, warning, critical                        *)
C6_EmissionOrder ==
    IsRecs =>
        /\ \A i \in DOMAIN Recs : Recs[i].type \in {"info", "warning", "critical"}
        /\ \A i, j \in DOMAIN Recs :
               i < j => Severity(Recs[i].type) <= Severity(Recs[j].type)
        /\ \A i, j \in OfType("warning") :
               i < j => WasteCostOf(Recs[i].menu_item) >= WasteCostOf(Recs[j].menu_item)
        /\ Cardinality(OfType("info")) <= 2
        /\ Cardinality(OfType("critical")) <= 1

(* a list holding two warnings of different waste cost, an info and the    *)
(* critical entry                                                          *)
C6_Witness ==
    /\ IsRecs
    /\ \E i, j \in OfType("warning") :
           WasteCostOf(Recs[i].menu_item) # WasteCostOf(Recs[j].menu_item)
    /\ OfType("info") # {}
    /\ OfType("critical") # {}

(* another list: more than two warnings and two infos *)
C6_WitnessMany ==
    /\ IsRecs
    /\ Cardinality(OfType("warning")) > 2
    /\ Cardinality(OfType("info")) = 2

(* ---------------------------------------------------------------------- *)
IsPerformance == result.op = "get_menu_performance"

(* C7: the rows of menuPerformance descend by profitability, and two rows  *)
(* of equal profitability are in ascending order of menu_item              *)
C7_DescendingTiesByName ==
    IsPerformance =>
        \A i, j \in DOMAIN result.value :
            i < j =>
                \/ result.value[i].profitability > result.value[j].profitability
                \/ /\ result.value[i].profitability = result.value[j].profitability
                   /\ result.value[i].menu_item < result.value[j].menu_item

(* C8: menuPerformance has exactly one row per distinct menu_item of the   *)
(* ledger, with the sums of quantity_sold, revenue, waste_quantity and     *)
(* waste_cost over the item's records and profitability = total_revenue -  *)
(* total_waste_cost (the row's columns are in hundredths, the ledger's     *)
(* money in tenths)                                                        *)
C8_OneRowPerItemWithSums ==
    IsPerformance =>
        /\ {result.value[i].menu_item : i \in DOMAIN result.value} = LedgerItems
        /\ Len(result.value) = Cardinality(LedgerItems)
        /\ \A i \in DOMAIN result.value :
               LET row == result.value[i]
               IN /\ row.total_sold = 100 * Sold(row.menu_item)
                  /\ row.total_revenue = 10 * RevenueOf(row.menu_item)
                  /\ row.total_waste = 100 * Wasted(row.menu_item)
                  /\ row.total_waste_cost = 10 * WasteCostOf(row.menu_item)
                  /\ row.profitability = row.total_revenue - row.total_waste_cost
                  /\ row.profitability = 10 * ProfitOf(row.menu_item)

(* a table of several items, one of them with several records of which one *)
(* was added after the others                                              *)
C8_Witness ==
    /\ IsPerformance
    /\ Len(result.value) > 1
    /\ \E item \in LedgerItems :
           /\ Cardinality(RowsOf(item)) > 1
           /\ RevenueOf(item) > 0
           /\ WasteCostOf(item) > 0

(* ---------------------------------------------------------------------- *)
RowsOn(day) == {i \in DOMAIN ledger : ledger[i].day_of_week = day}

IsMean(r, total, count) == r.kind = "num" /\ r.num * count = total * r.den

(* C9: dailyPatterns returns exactly 7 rows, Monday to Sunday in order; a  *)
(* weekday without records has a row carrying the no-data marker, a        *)
(* weekday with records the means of its records                           *)
C9_SevenRowsMondayToSunday ==
    result.op = "get_daily_patterns" =>
        /\ Len(result.value) = 7
        /\ \A d \in 1..7 :
               LET row == result.value[d]
                   on == RowsOn(days_order[d])
               IN /\ row.day_of_week = days_order[d]
                  /\ IF on = {}
                     THEN row.quantity_sold.kind = "nan"
                     ELSE /\ IsMean(row.quantity_sold,
                                    SumOver(on, "quantity_sold"), Cardinality(on))
                          /\ IsMean(row.revenue, SumOver(on, "revenue"), Cardinality(on))
                          /\ IsMean(row.waste_quantity,
                                    SumOver(on, "waste_quantity"), Cardinality(on))

(* C10: forecastDemand(horizonDays) returns exactly horizonDays entries,   *)
(* entry i dated i days after now, each with the weekday name of its own   *)
(* date, all with the same integer quantity                                *)
C10_HorizonEntries ==
    result.op = "forecast_demand" =>
        /\ result.ok
        /\ Len(result.value) = result.days
        /\ \A i \in DOMAIN result.value :
               /\ DayOf(result.value[i].date) = DayOf(now) + i
               /\ result.value[i].day_of_week = days_order[((DayOf(now) + i) % 7) + 1]
               /\ result.value[i].forecasted_demand \in Int
               /\ result.value[i].forecasted_demand = result.value[1].forecasted_demand

(* ---------------------------------------------------------------------- *)
(* The trailing 30 days of the ledger, by calendar date                    *)

IsForecast == result.op = "forecast_demand"

InWindow(i) == ledger[i].date >= PlusDays(now, 0 - HistoryDays)

WindowRows == {i \in DOMAIN ledger : InWindow(i)}

WindowDays == {DayOf(ledger[i].date) : i \in WindowRows}

DayTotal(d) == SumOver({i \in WindowRows : DayOf(ledger[i].date) = d}, "quantity_sold")

(* the min(7, n) most recent of the n calendar dates of the window *)
MostRecentDays ==
    {d \in WindowDays : Cardinality({e \in WindowDays : e > d}) < TailDays}

RECURSIVE SumDayTotals(_)
SumDayTotals(D) ==
    IF D = {} THEN 0
    ELSE LET d == CHOOSE x \in D : TRUE IN DayTotal(d) + SumDayTotals(D \ {d})

(* the integer part of a / b, b > 0 *)
IntegerPart(a, b) == IF a >= 0 THEN a \div b ELSE 0 - ((0 - a) \div b)

(* C11: with n >= 1 distinct dates in the trailing 30 days, every entry    *)
(* of the forecast carries the integer part of the mean of the daily       *)
(* quantity_sold totals of the min(7, n) most recent of those dates;       *)
(* records older than 30 days have no part in it                           *)
C11_MeanOfMostRecentDailyTotals ==
    (IsForecast /\ WindowDays # {}) =>
        /\ result.ok
        /\ \A i \in DOMAIN result.value :
               result.value[i].forecasted_demand =
                   IntegerPart(SumDayTotals(MostRecentDays), Cardinality(MostRecentDays))

(* C12: with no record in the trailing 30 days the forecast does not      *)
(* raise and has horizonDays entries, each with quantity 0                *)
C12_NoHistoryForecastsZero ==
    (IsForecast /\ WindowRows = {}) =>
        /\ result.ok
        /\ Len(result.value) = result.days
        /\ \A i \in DOMAIN result.value : result.value[i].forecasted_demand = 0

(* ---------------------------------------------------------------------- *)
IsTrend == result.op = "get_sales_trends"

Today == DayOf(now)

(* the records a trend over periodDays retains, by calendar date *)
TrendRows(period_days) ==
    {i \in DOMAIN ledger : DayOf(ledger[i].date) >= Today - period_days}

(* C13: salesTrend(periodDays) has a row for calendar date d iff the       *)
(* ledger holds a record dated d with d >= today - periodDays: a record    *)
(* dated exactly periodDays days before today is in, an earlier one is not *)
C13_RowIffRecordSinceCutoffDate ==
    IsTrend =>
        {DayOf(result.value[i].date) : i \in DOMAIN result.value} =
            {DayOf(ledger[i].date) : i \in TrendRows(result.period_days)}

(* the records the call retained *)
Retained(period_days) ==
    {i \in DOMAIN ledger : ledger[i].date >= PlusDays(now, 0 - period_days)}

(* C14: salesTrend has at most one row per date, its rows strictly         *)
(* ascending by date, each with the sums of quantity_sold, revenue and     *)
(* waste_quantity over the retained records of that date                   *)
C14_OneRowPerDateAscendingWithSums ==
    IsTrend =>
        /\ \A i, j \in DOMAIN result.value :
               i < j => DayOf(result.value[i].date) < DayOf(result.value[j].date)
        /\ \A i \in DOMAIN result.value :
               LET row == result.value[i]
                   on == {k \in Retained(result.period_days) :
                             DayOf(ledger[k].date) = DayOf(row.date)}
               IN /\ row.quantity_sold = SumOver(on, "quantity_sold")
                  /\ row.revenue = SumOver(on, "revenue")
                  /\ row.waste_quantity = SumOver(on, "waste_quantity")

(* ---------------------------------------------------------------------- *)
IsWaste == result.op = "get_waste_analysis"

(* C15: wasteAnalysis has exactly one row per distinct menu_item of the    *)
(* ledger, with the sums of waste_quantity, waste_cost and quantity_sold   *)
(* over the item's records, the rows in non-increasing order of waste_cost *)
C15_WasteRowsPerItemByCost ==
    IsWaste =>
        /\ {result.value[i].menu_item : i \in DOMAIN result.value} = LedgerItems
        /\ Len(result.value) = Cardinality(LedgerItems)
        /\ \A i \in DOMAIN result.value :
               LET row == result.value[i]
               IN /\ row.waste_quantity = Wasted(row.menu_item)
                  /\ row.waste_cost = WasteCostOf(row.menu_item)
                  /\ row.quantity_sold = Sold(row.menu_item)
        /\ \A i, j \in DOMAIN result.value :
               i < j => result.value[i].waste_cost >= result.value[j].waste_cost

(* a table of several items of different waste cost, one of them with a    *)
(* record added after its other records                                    *)
C15_Witness ==
    /\ IsWaste
    /\ Cardinality({result.value[i].waste_cost : i \in DOMAIN result.value}) > 2
    /\ \E item \in LedgerItems :
           /\ Cardinality(RowsOf(item)) > 1
           /\ ledger[Len(ledger)].menu_item = item
           /\ ledger[Len(ledger)].waste_cost > 0

(* ---------------------------------------------------------------------- *)
(* The calls and the store they find.  The stored ledger is empty exactly  *)
(* when no file can be read: no call ever writes a file without rows.      *)

Tables ==
    {"get_sales_trends", "get_menu_performance", "get_daily_patterns",
     "get_waste_analysis", "generate_recommendations"}

Analytics == Tables \cup {"forecast_demand"}

(* C16: on an empty ledger getSalesTrends, getMenuPerformance,             *)
(* getDailyPatterns, getWasteAnalysis and generateRecommendations return   *)
(* without raising, the tables empty and no recommendation given           *)
C16_EmptyLedgerGivesEmptyResults ==
    [][(ledger = <<>> /\ result'.op \in Tables) =>
           (result'.ok /\ result'.value = <<>>)]_vars

(* C17: no analytics operation changes the stored ledger, also when the    *)
(* data file does not exist or cannot be read                              *)
C17_AnalyticsLeaveLedgerUnchanged ==
    [][result'.op \in Analytics => Range(ledger') = Range(ledger)]_vars

(* C18: when the store cannot be read the call fails towards its caller,   *)
(* and no call returns results computed from records that were not read    *)
(* from the store                                                          *)
C18_DataUnavailableReachesCaller ==
    [][(fileState # "ok" /\ result'.op \in Analytics) =>
           /\ fileState = "unreadable" => ~result'.ok
           /\ ~result'.ok \/ result'.value = <<>>]_vars

(* ---------------------------------------------------------------------- *)
(* The record invariants: quantities not negative, revenue = quantity_sold *)
(* * price (in tenths), day_of_week the weekday of date                    *)

ValidRecord(r) ==
    /\ r.quantity_sold >= 0
    /\ r.waste_quantity >= 0
    /\ r.revenue = 10 * (r.quantity_sold * r.price)
    /\ r.day_of_week = Strftime_A(r.date)

InvalidRows == {i \in DOMAIN ledger : ~ValidRecord(ledger[i])}

ValidItems == {ledger[i].menu_item : i \in DOMAIN ledger \ InvalidRows}

(* C19: when the ledger holds a record violating the record invariants,    *)
(* every pipeline returns without raising, leaves that record out of all   *)
(* aggregates and reports the number of skipped records with its result    *)
C19_InvalidRecordsSkippedAndCounted ==
    (InvalidRows # {} /\ result.op \in Tables) =>
        /\ result.ok
        /\ "skipped" \in DOMAIN result
        /\ result.skipped = Cardinality(InvalidRows)
        /\ result.op \in {"get_menu_performance", "get_waste_analysis"} =>
               {result.value[i].menu_item : i \in DOMAIN result.value} = ValidItems
        /\ result.op = "get_waste_analysis" =>
               \A i \in DOMAIN result.value :
                   result.value[i].quantity_sold =
                       SumOver(RowsOf(result.value[i].menu_item) \ InvalidRows,
                               "quantity_sold")
        /\ result.op = "get_menu_performance" =>
               \A i \in DOMAIN result.value :
                   result.value[i].total_sold =
                       100 * SumOver(RowsOf(result.value[i].menu_item) \ InvalidRows,
                                     "quantity_sold")

(* ---------------------------------------------------------------------- *)
(* the arguments of the call that produced a result *)
ArgsOf(r) ==
    IF r.op = "forecast_demand" THEN r.days
    ELSE IF r.op = "get_sales_trends" THEN r.period_days
    ELSE 0

C21_ResultIndependentOfWallClock ==
    [][(/\ result.op = "none"
        /\ result'.op \in {"get_sales_trends", "forecast_demand"}
        /\ result.was = result'.op
        /\ result.args = ArgsOf(result')
        /\ ledger' = ledger)
       => (result'.ok = result.ok /\ result'.value = result.value)]_vars

(* ---------------------------------------------------------------------- *)
(* C26: every info recommendation names an item whose profitability is    *)
(* strictly below the 25th percentile of the items' profitabilities; when  *)
(* all items have the same profitability there is no info recommendation   *)
C26_InfoOnlyStrictlyBelowPercentile ==
    IsRecs =>
        LET P == ProfitByItem
        IN /\ \A i \in OfType("info") :
                  /\ Recs[i].menu_item \in LedgerItems
                  /\ 4 * P[Recs[i].menu_item] < FourPercentile25(P)
           /\ Cardinality({P[i] : i \in LedgerItems}) <= 1 => OfType("info") = {}

(* recommendations for a ledger of several items, all equally profitable *)
C26_Witness ==
    /\ IsRecs
    /\ Cardinality(LedgerItems) > 1
    /\ Cardinality({ProfitOf(i) : i \in LedgerItems}) = 1

(* ---------------------------------------------------------------------- *)
(* the waste percentage of an item, from the ledger: a / b * 100 *)
SamePercent(r, a, b) ==
    IF b = 0 THEN r.kind = (IF a = 0 THEN "nan" ELSE IF a > 0 THEN "inf" ELSE "-inf")
    ELSE r.kind = "num" /\ r.num * b = 100 * a * r.den

(* what the high-waste rule selects from a table *)
HighIn(rows) ==
    {rows[i].menu_item : i \in {k \in DOMAIN rows :
                                    GreaterThan(rows[k].waste_percentage, HighWastePercent)}}

HighItems ==
    {item \in LedgerItems :
        IF Sold(item) = 0 THEN Wasted(item) > 0
        ELSE IF Sold(item) > 0 THEN 100 * Wasted(item) > 15 * Sold(item)
        ELSE 100 * Wasted(item) < 15 * Sold(item)}

(* C27: menuPerformance and wasteAnalysis list the same items, those of    *)
(* the ledger, each with the same waste percentage, summed waste_quantity  *)
(* / summed quantity_sold * 100, so the high-waste rule selects the same   *)
(* items from either table                                                 *)
C27_TablesAgreeOnWastePercentage ==
    (IsPerformance \/ IsWaste) =>
        /\ {result.value[i].menu_item : i \in DOMAIN result.value} = LedgerItems
        /\ \A i \in DOMAIN result.value :
               SamePercent(result.value[i].waste_percentage,
                           Wasted(result.value[i].menu_item),
                           Sold(result.value[i].menu_item))
        /\ HighIn(result.value) = HighItems

(* a menuPerformance table with an item above 15% and an item not above it *)
C27_Witness ==
    /\ IsPerformance
    /\ HighItems # {}
    /\ HighItems # LedgerItems

(* ---------------------------------------------------------------------- *)
(* The ledger after record-adding operations (StoreSpec)                   *)

(* C22: every record of the ledger has revenue = quantity_sold * price and *)
(* waste_cost = waste_quantity * price * 0.3 (both kept in tenths here)    *)
C22_RevenueAndWasteCostFollowPrice ==
    \A i \in DOMAIN ledger :
        /\ ledger[i].revenue = 10 * ledger[i].quantity_sold * ledger[i].price
        /\ ledger[i].waste_cost = 3 * ledger[i].waste_quantity * ledger[i].price

(* an uploaded record priced by a food item, next to a record added by     *)
(* another operation                                                       *)
C22_Witness ==
    /\ Len(ledger) > 1
    /\ \E i \in DOMAIN ledger :
           /\ ledger[i].date_repr = "str"
           /\ ledger[i].price > 0
           /\ ledger[i].revenue > 0
           /\ ledger[i].waste_cost > 0
    /\ \E i \in DOMAIN ledger : ledger[i].date_repr = "ts"

(* C23: every record's day_of_week is the weekday name of its date, and    *)
(* its is_weekday is true exactly for Monday to Friday                     *)
C23_WeekdayFollowsDate ==
    \A i \in DOMAIN ledger :
        LET code == DayOf(ledger[i].date) % 7
        IN /\ ledger[i].day_of_week = days_order[code + 1]
           /\ ledger[i].is_weekday = (code < 5)

(* a ledger holding an uploaded record and an added one, one dated on a    *)
(* weekend and one on a working day                                        *)
C23_Witness ==
    /\ \E i, j \in DOMAIN ledger :
           /\ ledger[i].is_weekday
           /\ ~ledger[j].is_weekday
           /\ ledger[i].date_repr # ledger[j].date_repr

(* a record as the ledger's reader sees it: its date is the same whether   *)
(* stored as text or as a datetime                                         *)
Content(r) == [r EXCEPT !.date_repr = "ts"]

(* C24: the ledger is append-only: every record once in the ledger stays   *)
(* in it with its original price, revenue, quantities and waste_cost       *)
C24_LedgerIsAppendOnly ==
    [][\A i \in DOMAIN ledger :
           \E j \in DOMAIN ledger' : Content(ledger'[j]) = Content(ledger[i])]_vars

(* C25: the ledger holds at most one record for each (date, menu_item)     *)
C25_OneRecordPerDateAndItem ==
    \A i, j \in DOMAIN ledger :
        (/\ DayOf(ledger[i].date) = DayOf(ledger[j].date)
         /\ ledger[i].menu_item = ledger[j].menu_item) => i = j

(* C28: add_sales_record returns True and adds exactly one record, leaving *)
(* the existing ones unchanged, when menu_item is in the configured menu;  *)
(* otherwise it returns False and leaves the stored ledger unchanged       *)
C28_AddSalesRecordAddsOneOrNothing ==
    [][result'.op = "add_sales_record" =>
           IF result'.value
           THEN /\ Len(ledger') = Len(ledger) + 1
                /\ \A i \in DOMAIN ledger : Content(ledger'[i]) = Content(ledger[i])
                /\ ledger'[Len(ledger')].menu_item \in Range(config.menu_items)
           ELSE /\ ledger' = ledger
                /\ fileState' = fileState]_vars

(* C29: upload_sales_data is all-or-nothing: when it returns (False, ...)  *)
(* neither the ledger nor any food item has changed; when it returns       *)
(* (True, ...) the ledger holds a record for each row of the file          *)
C29_UploadIsAllOrNothing ==
    [][result'.op = "upload_sales_data" =>
           IF result'.value.success
           THEN Len(ledger') >= result'.value.processed
           ELSE ledger' = ledger /\ foodItems' = foodItems]_vars

(* ---------------------------------------------------------------------- *)
(* C30 (AuthSpec): the user list grows only by an add_user call made while *)
(* the current user has role 'admin'; an add_user call made with no        *)
(* current user or a non-admin one returns False and leaves the list as it *)
(* is; no two users share a username                                       *)
C30_OnlyAdminsAddUsers ==
    [][/\ Len(users') > Len(users) =>
              /\ authResult'.op = "add_user"
              /\ current_user # 0
              /\ users[current_user].role = "admin"
       /\ (/\ authResult'.op = "add_user"
           /\ current_user = 0 \/ users[current_user].role # "admin") =>
              (~authResult'.success /\ users' = users)
       /\ \A i, j \in DOMAIN users' :
              users'[i].username = users'[j].username => i = j]_vars

(* a non-admin user, added by an admin and now logged in, was refused by   *)
(* add_user                                                                *)
C30_Witness ==
    /\ authResult.op = "add_user"
    /\ ~authResult.success
    /\ current_user # 0
    /\ users[current_user].role = "user"
    /\ Len(users) = MaxUsers

====
